---- MODULE Spec2Model ----
(***************************************************************************)
(* Model of daily_check.py: one run of the commute briefing.               *)
(*                                                                         *)
(* Python strings are sequences of code points; a code point outside       *)
(* printable ASCII is written "U+XXXX".  The in operator on strings is     *)
(* substring search, str.lower maps A-Z to a-z, f-strings are              *)
(* concatenation.                                                          *)
(***************************************************************************)
EXTENDS Integers, Sequences, FiniteSets, TLC

\* ------------------------------------------------------------ bounds
\* longest alert list the transit API returns in the model
MaxAlerts == 2

\* ------------------------------------------------------------ Python values
\* JSON null / Python None, and a JSON string
JNull == [type |-> "null"]
JStr(s) == [type |-> "str", val |-> s]

\* dict.get('route_id') on an entity without the key
NoRoute == "None"

\* ------------------------------------------------------------ str operations
UpperCase == <<"A", "B", "C", "D", "E", "F", "G", "H", "I", "J", "K", "L", "M",
               "N", "O", "P", "Q", "R", "S", "T", "U", "V", "W", "X", "Y", "Z">>
LowerCase == <<"a", "b", "c", "d", "e", "f", "g", "h", "i", "j", "k", "l", "m",
               "n", "o", "p", "q", "r", "s", "t", "u", "v", "w", "x", "y", "z">>

\* str.lower on one code point
LowerChar(c) ==
    IF \E i \in 1..26 : UpperCase[i] = c
    THEN LowerCase[CHOOSE i \in 1..26 : UpperCase[i] = c]
    ELSE c

\* str.lower
Lower(s) == [i \in 1..Len(s) |-> LowerChar(s[i])]

\* sub in s
Contains(sub, s) ==
    \E i \in 0..(Len(s) - Len(sub)) : SubSeq(s, i + 1, i + Len(sub)) = sub

\* sep.join(xs)
RECURSIVE Join(_, _)
Join(sep, xs) ==
    IF xs = <<>> THEN <<>>
    ELSE IF Len(xs) = 1 THEN xs[1]
    ELSE xs[1] \o sep \o Join(sep, Tail(xs))

\* s.split(',') : the pieces between the commas, empty pieces kept
RECURSIVE SplitComma(_, _)
SplitComma(s, piece) ==
    IF s = <<>> THEN <<piece>>
    ELSE IF Head(s) = "," THEN <<piece>> \o SplitComma(Tail(s), <<>>)
    ELSE SplitComma(Tail(s), Append(piece, Head(s)))

\* s.strip() : leading and trailing white space removed
RECURSIVE LStrip(_)
LStrip(s) == IF s # <<>> /\ Head(s) \in {" ", "\n", "\t"} THEN LStrip(Tail(s)) ELSE s
RECURSIVE RStrip(_)
RStrip(s) ==
    IF s # <<>> /\ s[Len(s)] \in {" ", "\n", "\t"} THEN RStrip(SubSeq(s, 1, Len(s) - 1)) ELSE s
Strip(s) == RStrip(LStrip(s))

\* str(len(xs)) for the short lists of the model
Digits == <<"0", "1", "2", "3", "4", "5", "6", "7", "8", "9">>
RECURSIVE StrOfInt(_)
StrOfInt(n) == IF n < 10 THEN <<Digits[n + 1]>> ELSE StrOfInt(n \div 10) \o <<Digits[(n % 10) + 1]>>

\* ------------------------------------------------------------ literals of the source
\* "Kendall", "MIT", "Central", "Harvard"
target_zone == << <<"K", "e", "n", "d", "a", "l", "l">>, <<"M", "I", "T">>, <<"C", "e", "n",
                    "t", "r", "a", "l">>, <<"H", "a", "r", "v", "a", "r", "d">> >>
\* 'DELAY', 'SUSPENSION', 'DETOUR', 'SNOW_ROUTE', 'SHUTTLE'
relevant_effects == {"DELAY", "SUSPENSION", "DETOUR", "SNOW_ROUTE", "SHUTTLE"}
\* "all", "global"
KW_ALL == <<"a", "l", "l">>
KW_GLOBAL == <<"g", "l", "o", "b", "a", "l">>
\* the prefix of every kept header: warning sign, variation selector, space
ALERT_PREFIX == <<"U+26A0", "U+FE0F", " ">>
\* "(check mark) Service Normal (Kendall <-> Harvard)"
RED_NORMAL == <<"U+2705", " ", "S", "e", "r", "v", "i", "c", "e", " ", "N", "o", "r", "m", "a",
                "l", " ", "(", "K", "e", "n", "d", "a", "l", "l", " ", "<", "-", ">", " ", "H",
                "a", "r", "v", "a", "r", "d", ")">>
\* "(siren) **RED LINE ISSUES:**\n"
RED_ISSUES == <<"U+1F6A8", " ", "*", "*", "R", "E", "D", " ", "L", "I", "N", "E", " ", "I", "S",
                "S", "U", "E", "S", ":", "*", "*", "\n">>
\* "(check mark) Service Normal"
BUS_NORMAL == <<"U+2705", " ", "S", "e", "r", "v", "i", "c", "e", " ", "N", "o", "r", "m", "a",
                "l">>
\* "(siren) **BUS 1 ISSUES:**\n"
BUS_ISSUES == <<"U+1F6A8", " ", "*", "*", "B", "U", "S", " ", "1", " ", "I", "S", "S", "U", "E",
                "S", ":", "*", "*", "\n">>
NL == <<"\n">>
\* "Error checking MBTA: "
MBTA_ERROR == <<"E", "r", "r", "o", "r", " ", "c", "h", "e", "c", "k", "i", "n", "g", " ", "M",
                "B", "T", "A", ":", " ">>
\* "(warning) Could not access Longwood Collective website."
M2_UNREACHABLE == <<"U+26A0", "U+FE0F", " ", "C", "o", "u", "l", "d", " ", "n", "o", "t", " ",
                    "a", "c", "c", "e", "s", "s", " ", "L", "o", "n", "g", "w", "o", "o", "d",
                    " ", "C", "o", "l", "l", "e", "c", "t", "i", "v", "e", " ", "w", "e", "b",
                    "s", "i", "t", "e", ".">>
\* "Error checking M2: "
M2_ERROR == <<"E", "r", "r", "o", "r", " ", "c", "h", "e", "c", "k", "i", "n", "g", " ", "M",
              "2", ":", " ">>
\* "(warning) Error asking AI about M2: "
M2_AI_ERROR == <<"U+26A0", "U+FE0F", " ", "E", "r", "r", "o", "r", " ", "a", "s", "k", "i", "n",
                 "g", " ", "A", "I", " ", "a", "b", "o", "u", "t", " ", "M", "2", ":", " ">>
\* the words the three flags look for
ISSUES == <<"I", "S", "S", "U", "E", "S">>
SERVICE_NORMAL == <<"S", "e", "r", "v", "i", "c", "e", " ", "N", "o", "r", "m", "a", "l">>
\* the subject lines, up to the date
SUBJECT_CLEAR == <<"U+2705", " ", "C", "o", "m", "m", "u", "t", "e", " ", "C", "l", "e", "a",
                   "r", ":", " ", "A", "l", "l", " ", "N", "o", "r", "m", "a", "l", " ", "(">>
SUBJECT_RED == <<"U+26A0", "U+FE0F", " ", "C", "o", "m", "m", "u", "t", "e", " ", "A", "l", "e",
                 "r", "t", ":", " ", "R", "e", "d", " ", "L", "i", "n", "e", " ", "I", "s", "s",
                 "u", "e", "s", " ", "(">>
SUBJECT_BUS == <<"U+26A0", "U+FE0F", " ", "C", "o", "m", "m", "u", "t", "e", " ", "A", "l", "e",
                 "r", "t", ":", " ", "B", "u", "s", " ", "1", " ", "I", "s", "s", "u", "e", "s",
                 " ", "(">>
SUBJECT_M2 == <<"U+26A0", "U+FE0F", " ", "C", "o", "m", "m", "u", "t", "e", " ", "A", "l", "e",
                "r", "t", ":", " ", "M", "2", " ", "S", "h", "u", "t", "t", "l", "e", " ", "I",
                "s", "s", "u", "e", "s", " ", "(">>
SUBJECT_UPDATE == <<"U+26A0", "U+FE0F", " ", "C", "o", "m", "m", "u", "t", "e", " ", "U", "p",
                    "d", "a", "t", "e", " ", "(">>
CLOSE_PAREN == <<")">>
\* the pieces of the body template between its four holes
BODY_1 == <<"\n", " ", " ", " ", " ", "C", "O", "M", "M", "U", "T", "E", " ", "B", "R", "I",
            "E", "F", "I", "N", "G", " ", "-", " ">>
BODY_2 == <<"\n", " ", " ", " ", " ", "\n", " ", " ", " ", " ", "-", "-", "-", "-", "-", "-",
            "-", "-", "-", "-", "-", "-", "-", "-", "-", "-", "-", "-", "-", "-", "-", "-", "-",
            "-", "-", "-", "-", "-", "-", "-", "-", "-", "-", "-", "-", "-", "-", "-", "-", "-",
            "-", "-", "-", "\n", " ", " ", " ", " ", "U+1F687", " ", "R", "E", "D", " ", "L",
            "I", "N", "E", " ", "(", "S", "u", "b", "w", "a", "y", ")", "\n", " ", " ", " ",
            " ">>
BODY_3 == <<"\n", " ", " ", " ", " ", "\n", " ", " ", " ", " ", "-", "-", "-", "-", "-", "-",
            "-", "-", "-", "-", "-", "-", "-", "-", "-", "-", "-", "-", "-", "-", "-", "-", "-",
            "-", "-", "-", "-", "-", "-", "-", "-", "-", "-", "-", "-", "-", "-", "-", "-", "-",
            "-", "-", "-", "\n", " ", " ", " ", " ", "U+1F68C", " ", "B", "U", "S", " ", "1",
            " ", "(", "B", "a", "c", "k", "u", "p", ")", "\n", " ", " ", " ", " ">>
BODY_4 == <<"\n", "\n", " ", " ", " ", " ", "-", "-", "-", "-", "-", "-", "-", "-", "-", "-",
            "-", "-", "-", "-", "-", "-", "-", "-", "-", "-", "-", "-", "-", "-", "-", "-", "-",
            "-", "-", "-", "-", "-", "-", "-", "-", "-", "-", "-", "-", "-", "-", "-", "-",
            "\n", " ", " ", " ", " ", "U+1F690", " ", "H", "A", "R", "V", "A", "R", "D", " ",
            "M", "2", " ", "S", "H", "U", "T", "T", "L", "E", "\n", " ", " ", " ", " ">>
BODY_5 == <<"\n", " ", " ", " ", " ", "\n", " ", " ", " ", " ", "-", "-", "-", "-", "-", "-",
            "-", "-", "-", "-", "-", "-", "-", "-", "-", "-", "-", "-", "-", "-", "-", "-", "-",
            "-", "-", "-", "-", "-", "-", "-", "-", "-", "-", "-", "-", "-", "-", "-", "-", "-",
            "-", "-", "-", "\n", " ", " ", " ", " ">>
\* what the run prints
PRINT_MBTA == <<"C", "h", "e", "c", "k", "i", "n", "g", " ", "M", "B", "T", "A", ".", ".", ".">>
PRINT_M2 == <<"C", "h", "e", "c", "k", "i", "n", "g", " ", "M", "2", " ", "S", "h", "u", "t",
              "t", "l", "e", ".", ".", ".">>
PRINT_SUBJECT == <<"S", "u", "b", "j", "e", "c", "t", ":", " ">>
PRINT_SENT_1 == <<"U+2705", " ", "E", "m", "a", "i", "l", " ", "s", "e", "n", "t", " ", "t",
                  "o", " ">>
PRINT_SENT_2 == <<" ", "r", "e", "c", "i", "p", "i", "e", "n", "t", "(", "s", ")", "!">>
PRINT_FAILED == <<"U+274C", " ", "E", "m", "a", "i", "l", " ", "f", "a", "i", "l", "e", "d",
                  ":", " ">>
COMMA_SPACE == <<",", " ">>

\* ------------------------------------------------------------ inputs of a run
\* one entry of attributes.informed_entity
Ent(r) == [route_id |-> r]
\* one element of the data array of the transit API
Alert(e, ents, h, d) == [effect |-> e, informed_entity |-> ents, header |-> h, description |-> d]

\* Red Line, zone keyword in the header
A_RedHarvard == Alert("DELAY", <<Ent("Red")>>, <<"H", "a", "r", "v", "a", "r", "d", " ", "d",
                                                 "e", "l", "a", "y">>, JStr(<<"S", "i", "g",
                                                 "n", "a", "l", " ", "p", "r", "o", "b", "l",
                                                 "e", "m">>))
\* Red Line, zone keywords in upper case in the description
A_RedUpper == Alert("SUSPENSION", <<Ent("Red")>>, <<"N", "o", " ", "s", "e", "r", "v", "i", "c",
                                                    "e">>, JStr(<<"K", "E", "N", "D", "A", "L",
                                                    "L", "/", "M", "I", "T">>))
\* Red Line, no keyword
A_RedFar == Alert("DELAY", <<Ent("Red")>>, <<"A", "s", "h", "m", "o", "n", "t", " ", "d", "e",
                                             "l", "a", "y">>, JStr(<<"S", "i", "g", "n", "a",
                                             "l", " ", "p", "r", "o", "b", "l", "e", "m">>))
\* Red Line, "all" inside "Installation"
A_RedSubstr == Alert("DETOUR", <<Ent("Red")>>, <<"B", "r", "a", "i", "n", "t", "r", "e", "e">>,
                                                 JStr(<<"I", "n", "s", "t", "a", "l", "l", "a",
                                                 "t", "i", "o", "n", " ", "w", "o", "r", "k">>))
\* Red Line, "all" only across the join of header and description
A_RedStraddle == Alert("SHUTTLE", <<Ent("Red")>>, <<"A", "s", "h", "m", "o", "n", "t", " ", "s",
                                                    "i", "g", "n", "a", "l">>, JStr(<<"l", "o",
                                                    "s", "t", " ", "p", "o", "w", "e", "r">>))
\* Red Line, description null
A_RedNullDesc == Alert("DELAY", <<Ent("Red")>>, <<"H", "a", "r", "v", "a", "r", "d", " ", "c",
                                                  "l", "o", "s", "e", "d">>, JNull)
\* Bus 1, description null
A_Bus == Alert("DETOUR", <<Ent("1")>>, <<"B", "u", "s", " ", "1", " ", "d", "e", "t", "o", "u",
                                         "r">>, JNull)
\* Bus 1 first, Red Line second
A_BusSnow == Alert("SNOW_ROUTE", <<Ent("1"), Ent("Red")>>, <<"S", "n", "o", "w", " ", "r", "o",
                                                             "u", "t", "e">>, JStr(<<"Q", "u",
                                                             "i", "n", "c", "y">>))
\* effects outside the list
A_RedIrrelevant == Alert("STATION_CLOSURE", <<Ent("Red")>>, <<"H", "a", "r", "v", "a", "r", "d",
                                                              " ", "l", "i", "f", "t">>, JNull)
A_BusIrrelevant == Alert("STOP_CLOSURE", <<Ent("1")>>, <<"S", "t", "o", "p", " ", "m", "o", "v",
                                                         "e", "d">>, JStr(<<"a", "l", "l", " ",
                                                         "w", "e", "e", "k">>))
\* another route, no route, no informed entity
A_Other == Alert("DELAY", <<Ent("Orange")>>, <<"O", "r", "a", "n", "g", "e", " ", "d", "e", "l",
                                               "a", "y">>, JStr(<<"H", "a", "r", "v", "a", "r",
                                               "d">>))
A_NoRoute == Alert("DELAY", <<Ent(NoRoute)>>, <<"S", "y", "s", "t", "e", "m", " ", "d", "e",
                                                "l", "a", "y">>, JStr(<<"a", "l", "l", " ", "l",
                                                "i", "n", "e", "s">>))
A_NoEntity == Alert("DELAY", <<>>, <<"N", "o", "t", "i", "c", "e">>, JStr(<<"g", "l", "o", "b",
                                     "a", "l">>))

ALERT_POOL == {A_RedHarvard, A_RedUpper, A_RedFar, A_RedSubstr, A_RedStraddle, A_RedNullDesc,
               A_Bus, A_BusSnow, A_RedIrrelevant, A_BusIrrelevant, A_Other, A_NoRoute, A_NoEntity}

\* the alert lists response.json().get('data', []) can be
AlertLists == UNION {[1..n -> ALERT_POOL] : n \in 0..MaxAlerts}

\* str(e) of the exceptions requests.get and response.json raise
MBTA_FETCH_ERRORS == { <<"C", "o", "n", "n", "e", "c", "t", "i", "o", "n", " ", "r", "e", "f",
                         "u", "s", "e", "d">>, <<"E", "x", "p", "e", "c", "t", "i", "n", "g",
                         " ", "v", "a", "l", "u", "e", ":", " ", "l", "i", "n", "e", " ", "1",
                         " ", "c", "o", "l", "u", "m", "n", " ", "1", " ", "(", "c", "h", "a",
                         "r", " ", "0", ")">> }
\* str(e) of header + None
TYPE_ERROR == <<"c", "a", "n", " ", "o", "n", "l", "y", " ", "c", "o", "n", "c", "a", "t", "e",
                "n", "a", "t", "e", " ", "s", "t", "r", " ", "(", "n", "o", "t", " ", "\"", "N",
                "o", "n", "e", "T", "y", "p", "e", "\"", ")", " ", "t", "o", " ", "s", "t",
                "r">>
\* str(e) of the exceptions of the advisory page fetch and of the completion call
M2_FETCH_ERRORS == { <<"C", "o", "n", "n", "e", "c", "t", "i", "o", "n", " ", "t", "i", "m",
                       "e", "d", " ", "o", "u", "t">> }
M2_AI_ERRORS == { <<"E", "r", "r", "o", "r", " ", "c", "o", "d", "e", ":", " ", "4", "0", "1",
                    " ", "-", " ", "I", "n", "v", "a", "l", "i", "d", " ", "A", "P", "I", " ",
                    "K", "e", "y">> }
\* chat.choices[0].message.content
M2_SUMMARIES == { <<"U+2705", " ", "S", "e", "r", "v", "i", "c", "e", " ", "N", "o", "r", "m",
                    "a", "l">>, <<"S", "e", "r", "v", "i", "c", "e", " ", "N", "o", "r", "m",
                    "a", "l">>, <<"M", "2", " ", "i", "s", " ", "o", "n", " ", "a", " ", "s",
                    "n", "o", "w", " ", "r", "o", "u", "t", "e", " ", "t", "o", "d", "a", "y",
                    ".">>,
                  <<"M", "2", " ", "d", "e", "l", "a", "y", "e", "d", " ", "2", "0", " ", "m",
                    "i", "n", ".", " ", "S", "e", "r", "v", "i", "c", "e", " ", "N", "o", "r",
                    "m", "a", "l", " ", "r", "e", "s", "u", "m", "e", "s", " ", "a", "t", " ",
                    "n", "o", "o", "n", ".">> }
\* str(e) of the exceptions of SMTP_SSL, login and sendmail
SMTP_ERRORS == { <<"C", "o", "n", "n", "e", "c", "t", "i", "o", "n", " ", "r", "e", "f", "u",
                   "s", "e", "d">> }
\* datetime.now().strftime("%a, %b %d")
DATES == { <<"F", "r", "i", ",", " ", "N", "o", "v", " ", "0", "6">>, <<"M", "o", "n", ",", " ",
             "J", "a", "n", " ", "0", "5">> }

\* os.environ
ENV_FULL == [EMAIL_USER |-> <<"m", "e", "@", "x", ".", "o", "r", "g">>,
                              EMAIL_PASSWORD |-> <<"p", "w">>, EMAIL_TO |-> <<"a", "@", "x",
                              ".", "o", "r", "g", ",", " ", "b", "@", "y", ".", "o", "r", "g">>]
ENV_NO_TO == [EMAIL_USER |-> <<"m", "e", "@", "x", ".", "o", "r", "g">>,
                               EMAIL_PASSWORD |-> <<"p", "w">>]
ENV_NO_USER == [EMAIL_PASSWORD |-> <<"p", "w">>, EMAIL_TO |-> <<"a", "@", "x", ".", "o", "r",
                                     "g">>]
ENV_NO_PASSWORD == [EMAIL_USER |-> <<"m", "e", "@", "x", ".", "o", "r", "g">>]
ENVS == {ENV_FULL, ENV_NO_TO, ENV_NO_USER, ENV_NO_PASSWORD}

\* ------------------------------------------------------------ state
VARIABLES
    pc,           \* the statement the run is at
    env,          \* os.environ
    alerts,       \* check_mbta_split: the alerts the for loop has yet to visit
    red_alerts,   \* check_mbta_split: kept Red Line headers
    bus_alerts,   \* check_mbta_split: kept Bus 1 headers
    mbta_raised,  \* check_mbta_split returned from its except clause
    m2_failed,    \* the shuttle path took a failure branch
    red_status,
    bus_status,
    m2_status,
    today,
    red_bad,
    bus_bad,
    m2_bad,
    subject,
    email_body,
    stdout,       \* the strings printed, in order
    mail,         \* send_email: sender, receivers and the message built
    smtp,         \* the mail relay: connection attempts, logins, messages accepted
    uncaught      \* the exception that left __main__, or <<>>

vars == <<pc, env, alerts, red_alerts, bus_alerts, mbta_raised, m2_failed, red_status,
          bus_status, m2_status, today, red_bad, bus_bad, m2_bad, subject, email_body,
          stdout, mail, smtp, uncaught>>

mbta_vars == <<alerts, red_alerts, bus_alerts, mbta_raised, red_status, bus_status>>
main_vars == <<today, red_bad, bus_bad, m2_bad, subject, email_body>>

\* a name not bound yet
Unbound == <<>>

Init ==
    /\ pc = "check_mbta"
    /\ env \in ENVS
    /\ alerts = <<>>
    /\ red_alerts = <<>>
    /\ bus_alerts = <<>>
    /\ mbta_raised = FALSE
    /\ m2_failed = FALSE
    /\ red_status = Unbound
    /\ bus_status = Unbound
    /\ m2_status = Unbound
    /\ today = Unbound
    /\ red_bad = FALSE
    /\ bus_bad = FALSE
    /\ m2_bad = FALSE
    /\ subject = Unbound
    /\ email_body = Unbound
    /\ stdout = <<>>
    /\ mail = Unbound
    /\ smtp = [connects |-> 0, logins |-> 0, messages |-> <<>>]
    /\ uncaught = <<>>

\* ------------------------------------------------------------ check_mbta_split
\* the effect test left out
RelevantEffect_Any(effect) == TRUE

\* attrs['effect'] in [...]
RelevantEffect(effect) == effect \in relevant_effects

\* informed[0].get('route_id') if informed else None
RouteIdOf(alert) ==
    IF alert.informed_entity # <<>> THEN alert.informed_entity[1].route_id ELSE NoRoute

\* any(stop.lower() in text_to_check for stop in target_zone)
AffectsMyCommute(text_to_check) ==
    \E i \in 1..Len(target_zone) : Contains(Lower(target_zone[i]), text_to_check)

\* "all" in text_to_check or "global" in text_to_check
IsGlobal(text_to_check) == Contains(KW_ALL, text_to_check) \/ Contains(KW_GLOBAL, text_to_check)

\* the Red Line branch for a header and a description that are both strings
RedAlertKept(header, description) ==
    LET text_to_check == Lower(header \o description)
    IN AffectsMyCommute(text_to_check) \/ IsGlobal(text_to_check)

\* one pass of the for loop over alert, from the lists ra and ba:
\* the lists after it, or the exception it raises
LoopBody(alert, ra, ba) ==
    IF RelevantEffect(alert.effect)
    THEN LET header == alert.header
             description == alert.description
             route_id == RouteIdOf(alert)
         IN IF route_id = "Red"
            THEN IF description.type # "str"
                 THEN [raised |-> TRUE, error |-> TYPE_ERROR, red |-> ra, bus |-> ba]
                 ELSE IF RedAlertKept(header, description.val)
                      THEN [raised |-> FALSE, red |-> Append(ra, ALERT_PREFIX \o header), bus |-> ba]
                      ELSE [raised |-> FALSE, red |-> ra, bus |-> ba]
            ELSE IF route_id = "1"
                 THEN [raised |-> FALSE, red |-> ra, bus |-> Append(ba, ALERT_PREFIX \o header)]
                 ELSE [raised |-> FALSE, red |-> ra, bus |-> ba]
    ELSE [raised |-> FALSE, red |-> ra, bus |-> ba]

\* the status strings built from the two lists
RedStatusOf(ra) == IF ra = <<>> THEN RED_NORMAL ELSE RED_ISSUES \o Join(NL, ra)
BusStatusOf(ba) == IF ba = <<>> THEN BUS_NORMAL ELSE BUS_ISSUES \o Join(NL, ba)

\* error_msg of the except clause
MbtaErrorMsg(e) == MBTA_ERROR \o e

\* except Exception as e: return error_msg, error_msg
MbtaExcept(e) ==
    /\ red_status' = MbtaErrorMsg(e)
    /\ bus_status' = MbtaErrorMsg(e)
    /\ mbta_raised' = TRUE
    /\ pc' = "check_m2"

\* print, requests.get, response.json().get('data', []), the empty lists
CheckMbtaFetch ==
    /\ pc = "check_mbta"
    /\ stdout' = Append(stdout, PRINT_MBTA)
    /\ \/ \E e \in MBTA_FETCH_ERRORS :
            /\ MbtaExcept(e)
            /\ UNCHANGED <<alerts, red_alerts, bus_alerts>>
       \/ \E data \in AlertLists :
            /\ alerts' = data
            /\ red_alerts' = <<>>
            /\ bus_alerts' = <<>>
            /\ pc' = "mbta_loop"
            /\ UNCHANGED <<mbta_raised, red_status, bus_status>>
    /\ UNCHANGED <<env, m2_failed, m2_status, main_vars, mail, smtp, uncaught>>

\* for alert in alerts: one alert
MbtaLoopStep ==
    /\ pc = "mbta_loop"
    /\ alerts # <<>>
    /\ LET r == LoopBody(Head(alerts), red_alerts, bus_alerts)
       IN IF r.raised
          THEN /\ MbtaExcept(r.error)
               /\ UNCHANGED <<alerts, red_alerts, bus_alerts>>
          ELSE /\ red_alerts' = r.red
               /\ bus_alerts' = r.bus
               /\ alerts' = Tail(alerts)
               /\ UNCHANGED <<pc, mbta_raised, red_status, bus_status>>
    /\ UNCHANGED <<env, m2_failed, m2_status, main_vars, stdout, mail, smtp, uncaught>>

\* after the loop: the two status strings, return
MbtaBuildStatus ==
    /\ pc = "mbta_loop"
    /\ alerts = <<>>
    /\ red_status' = RedStatusOf(red_alerts)
    /\ bus_status' = BusStatusOf(bus_alerts)
    /\ pc' = "check_m2"
    /\ UNCHANGED <<env, alerts, red_alerts, bus_alerts, mbta_raised, m2_failed, m2_status,
                   main_vars, stdout, mail, smtp, uncaught>>

\* ------------------------------------------------------------ check_m2_shuttle
M2FetchErrorMsg(e) == M2_ERROR \o e
M2AiErrorMsg(e) == M2_AI_ERROR \o e

\* print, requests.get, the status code, the page text
CheckM2Fetch ==
    /\ pc = "check_m2"
    /\ stdout' = Append(stdout, PRINT_M2)
    /\ \/ /\ m2_status' = M2_UNREACHABLE
          /\ m2_failed' = TRUE
          /\ pc' = "classify"
       \/ \E e \in M2_FETCH_ERRORS :
            /\ m2_status' = M2FetchErrorMsg(e)
            /\ m2_failed' = TRUE
            /\ pc' = "classify"
       \/ /\ pc' = "m2_summary"
          /\ UNCHANGED <<m2_status, m2_failed>>
    /\ UNCHANGED <<env, mbta_vars, main_vars, mail, smtp, uncaught>>

\* get_m2_summary, and check_m2_shuttle returning its result
GetM2Summary ==
    /\ pc = "m2_summary"
    /\ \/ \E content \in M2_SUMMARIES :
            /\ m2_status' = content
            /\ UNCHANGED m2_failed
       \/ \E e \in M2_AI_ERRORS :
            /\ m2_status' = M2AiErrorMsg(e)
            /\ m2_failed' = TRUE
    /\ pc' = "classify"
    /\ UNCHANGED <<env, mbta_vars, main_vars, stdout, mail, smtp, uncaught>>

\* ------------------------------------------------------------ __main__
\* the route flag as a comparison with the plain normal sentinel
RouteBad_NotNormal(status) == status # BUS_NORMAL
\* the shuttle flag written like the two route flags
M2Bad_Issues(status) == Contains(ISSUES, status)

\* "ISSUES" in red_status, "ISSUES" in bus_status
RouteBad(status) == Contains(ISSUES, status)
\* "Service Normal" not in m2_status
M2Bad(status) == ~Contains(SERVICE_NORMAL, status)

\* the date and the three flags
Classify ==
    /\ pc = "classify"
    /\ today' \in DATES
    /\ red_bad' = RouteBad(red_status)
    /\ bus_bad' = RouteBad(bus_status)
    /\ m2_bad' = M2Bad(m2_status)
    /\ pc' = "subject"
    /\ UNCHANGED <<env, mbta_vars, m2_failed, m2_status, subject, email_body, stdout, mail,
                   smtp, uncaught>>

\* the elif chain with Bus 1 tested before Red Line
SubjectFor_BusFirst(rb, bb, mb, date) ==
    IF ~rb /\ ~bb /\ ~mb THEN SUBJECT_CLEAR \o date \o CLOSE_PAREN
    ELSE IF bb THEN SUBJECT_BUS \o date \o CLOSE_PAREN
    ELSE IF rb THEN SUBJECT_RED \o date \o CLOSE_PAREN
    ELSE IF mb THEN SUBJECT_M2 \o date \o CLOSE_PAREN
    ELSE SUBJECT_UPDATE \o date \o CLOSE_PAREN

\* the elif chain without its shuttle branch
SubjectFor_NoShuttleBranch(rb, bb, mb, date) ==
    IF ~rb /\ ~bb /\ ~mb THEN SUBJECT_CLEAR \o date \o CLOSE_PAREN
    ELSE IF rb THEN SUBJECT_RED \o date \o CLOSE_PAREN
    ELSE IF bb THEN SUBJECT_BUS \o date \o CLOSE_PAREN
    ELSE SUBJECT_UPDATE \o date \o CLOSE_PAREN

\* the if / elif chain
SubjectFor(rb, bb, mb, date) ==
    IF ~rb /\ ~bb /\ ~mb THEN SUBJECT_CLEAR \o date \o CLOSE_PAREN
    ELSE IF rb THEN SUBJECT_RED \o date \o CLOSE_PAREN
    ELSE IF bb THEN SUBJECT_BUS \o date \o CLOSE_PAREN
    ELSE IF mb THEN SUBJECT_M2 \o date \o CLOSE_PAREN
    ELSE SUBJECT_UPDATE \o date \o CLOSE_PAREN

SelectSubject ==
    /\ pc = "subject"
    /\ subject' = SubjectFor(red_bad, bus_bad, m2_bad, today)
    /\ pc' = "report"
    /\ UNCHANGED <<env, mbta_vars, m2_failed, m2_status, today, red_bad, bus_bad, m2_bad,
                   email_body, stdout, mail, smtp, uncaught>>

\* the body template
BodyFor(date, rs, bs, ms) ==
    BODY_1 \o date \o BODY_2 \o rs \o BODY_3 \o bs \o BODY_4 \o ms \o BODY_5

BuildReport ==
    /\ pc = "report"
    /\ email_body' = BodyFor(today, red_status, bus_status, m2_status)
    /\ pc' = "print"
    /\ UNCHANGED <<env, mbta_vars, m2_failed, m2_status, today, red_bad, bus_bad, m2_bad,
                   subject, stdout, mail, smtp, uncaught>>

\* print(f"Subject: {subject}"), print(email_body)
PrintReport ==
    /\ pc = "print"
    /\ stdout' = stdout \o <<PRINT_SUBJECT \o subject, email_body>>
    /\ pc' = "send_email"
    /\ UNCHANGED <<env, mbta_vars, m2_failed, m2_status, main_vars, mail, smtp, uncaught>>

\* ------------------------------------------------------------ send_email
\* the traceback line of os.environ[...] on a missing variable
KEY_ERROR_USER == <<"K", "e", "y", "E", "r", "r", "o", "r", ":", " ", "'", "E", "M", "A", "I",
                    "L", "_", "U", "S", "E", "R", "'">>
KEY_ERROR_PASSWORD == <<"K", "e", "y", "E", "r", "r", "o", "r", ":", " ", "'", "E", "M", "A",
                        "I", "L", "_", "P", "A", "S", "S", "W", "O", "R", "D", "'">>

\* the receivers of raw_to
ReceiversOf(raw_to) ==
    IF Contains(<<",">>, raw_to)
    THEN LET parts == SplitComma(raw_to, <<>>)
         IN [i \in 1..Len(parts) |-> Strip(parts[i])]
    ELSE <<raw_to>>

\* os.environ[...], the receivers, the message; a missing variable raises KeyError,
\* which nothing catches
SendEmailPrepare ==
    /\ pc = "send_email"
    /\ IF "EMAIL_USER" \notin DOMAIN env
       THEN /\ uncaught' = KEY_ERROR_USER
            /\ pc' = "crashed"
            /\ UNCHANGED mail
       ELSE IF "EMAIL_PASSWORD" \notin DOMAIN env
       THEN /\ uncaught' = KEY_ERROR_PASSWORD
            /\ pc' = "crashed"
            /\ UNCHANGED mail
       ELSE LET sender == env.EMAIL_USER
                raw_to == IF "EMAIL_TO" \in DOMAIN env THEN env.EMAIL_TO ELSE sender
                receivers == ReceiversOf(raw_to)
            IN /\ mail' = [sender |-> sender,
                           password |-> env.EMAIL_PASSWORD,
                           receivers |-> receivers,
                           msg |-> [Subject |-> subject, From |-> sender,
                                    To |-> Join(COMMA_SPACE, receivers), body |-> email_body]]
               /\ pc' = "smtp"
               /\ UNCHANGED uncaught
    /\ UNCHANGED <<env, mbta_vars, m2_failed, m2_status, main_vars, stdout, smtp>>

\* the try block without its except clause: a failure leaves the run
SendEmailSmtp_NoCatch ==
    /\ pc = "smtp"
    /\ \/ \E e \in SMTP_ERRORS :
            /\ smtp' = [smtp EXCEPT !.connects = @ + 1]
            /\ uncaught' = e
            /\ pc' = "crashed"
            /\ UNCHANGED stdout
       \/ /\ smtp' = [smtp EXCEPT !.connects = @ + 1, !.logins = @ + 1,
                                  !.messages = Append(@, [sender |-> mail.sender,
                                                          receivers |-> mail.receivers,
                                                          msg |-> mail.msg])]
          /\ stdout' = Append(stdout, PRINT_SENT_1 \o StrOfInt(Len(mail.receivers)) \o PRINT_SENT_2)
          /\ pc' = "exit"
          /\ UNCHANGED uncaught
    /\ UNCHANGED <<env, mbta_vars, m2_failed, m2_status, main_vars, mail>>

\* the try block: SMTP_SSL or login raises, sendmail raises, or the message is
\* accepted; the two prints
SendEmailSmtp ==
    /\ pc = "smtp"
    /\ \/ \E e \in SMTP_ERRORS :
            /\ smtp' = [smtp EXCEPT !.connects = @ + 1]
            /\ stdout' = Append(stdout, PRINT_FAILED \o e)
       \/ \E e \in SMTP_ERRORS :
            /\ smtp' = [smtp EXCEPT !.connects = @ + 1, !.logins = @ + 1]
            /\ stdout' = Append(stdout, PRINT_FAILED \o e)
       \/ /\ smtp' = [smtp EXCEPT !.connects = @ + 1, !.logins = @ + 1,
                                  !.messages = Append(@, [sender |-> mail.sender,
                                                          receivers |-> mail.receivers,
                                                          msg |-> mail.msg])]
          /\ stdout' = Append(stdout, PRINT_SENT_1 \o StrOfInt(Len(mail.receivers)) \o PRINT_SENT_2)
    /\ pc' = "exit"
    /\ UNCHANGED <<env, mbta_vars, m2_failed, m2_status, main_vars, mail, uncaught>>

\* ------------------------------------------------------------ the run
Next ==
    \/ CheckMbtaFetch
    \/ MbtaLoopStep
    \/ MbtaBuildStatus
    \/ CheckM2Fetch
    \/ GetM2Summary
    \/ Classify
    \/ SelectSubject
    \/ BuildReport
    \/ PrintReport
    \/ SendEmailPrepare
    \/ SendEmailSmtp

Spec == Init /\ [][Next]_vars

\* ------------------------------------------------------------ words of the claims
\* the run has left check_mbta_split, the flags are computed, the subject is chosen
MbtaReturned == red_status # Unbound
Classified == today # Unbound
SubjectChosen == subject # Unbound
Ended == pc \in {"exit", "crashed"}

\* the four subject lines and the fallback, for the date of the run
AllClearSubject == <<"U+2705", " ", "C", "o", "m", "m", "u", "t", "e", " ", "C", "l", "e", "a",
                     "r", ":", " ", "A", "l", "l", " ", "N", "o", "r", "m", "a", "l", " ",
                     "(">> \o today \o <<")">>
RedLineSubject == <<"U+26A0", "U+FE0F", " ", "C", "o", "m", "m", "u", "t", "e", " ", "A", "l",
                    "e", "r", "t", ":", " ", "R", "e", "d", " ", "L", "i", "n", "e", " ", "I",
                    "s", "s", "u", "e", "s", " ", "(">> \o today \o <<")">>
Bus1Subject == <<"U+26A0", "U+FE0F", " ", "C", "o", "m", "m", "u", "t", "e", " ", "A", "l", "e",
                 "r", "t", ":", " ", "B", "u", "s", " ", "1", " ", "I", "s", "s", "u", "e", "s",
                 " ", "(">> \o today \o <<")">>
ShuttleSubject == <<"U+26A0", "U+FE0F", " ", "C", "o", "m", "m", "u", "t", "e", " ", "A", "l",
                    "e", "r", "t", ":", " ", "M", "2", " ", "S", "h", "u", "t", "t", "l", "e",
                    " ", "I", "s", "s", "u", "e", "s", " ", "(">> \o today \o <<")">>
FallbackSubject == <<"U+26A0", "U+FE0F", " ", "C", "o", "m", "m", "u", "t", "e", " ", "U", "p",
                     "d", "a", "t", "e", " ", "(">> \o today \o <<")">>

\* the normal sentinels
ShuttleSentinel == <<"U+2705", " ", "S", "e", "r", "v", "i", "c", "e", " ", "N", "o", "r", "m",
                     "a", "l">>
RedLineSentinel == <<"U+2705", " ", "S", "e", "r", "v", "i", "c", "e", " ", "N", "o", "r", "m",
                     "a", "l", " ", "(", "K", "e", "n", "d", "a", "l", "l", " ", "<", "-", ">",
                     " ", "H", "a", "r", "v", "a", "r", "d", ")">>
Bus1Sentinel == <<"U+2705", " ", "S", "e", "r", "v", "i", "c", "e", " ", "N", "o", "r", "m",
                  "a", "l">>

\* s starts with p
StartsWith(p, s) == Len(s) >= Len(p) /\ SubSeq(s, 1, Len(p)) = p

\* ------------------------------------------------------------ C1
\* C1: the subject names exactly the highest-priority disrupted route, in the
\* order Red Line > Bus 1 > M2 Shuttle, and is the all-clear subject exactly when
\* no route is disrupted; with both a Red Line and a Bus 1 alert kept the subject
\* names Red Line and not Bus 1; no alert kept and the shuttle summary equal to
\* the normal sentinel give the all-clear subject.
C1_SubjectPriority ==
    SubjectChosen =>
        /\ (subject = RedLineSubject) <=> red_bad
        /\ (subject = Bus1Subject) <=> (~red_bad /\ bus_bad)
        /\ (subject = ShuttleSubject) <=> (~red_bad /\ ~bus_bad /\ m2_bad)
        /\ (subject = AllClearSubject) <=> (~red_bad /\ ~bus_bad /\ ~m2_bad)
        /\ (~mbta_raised /\ red_alerts # <<>> /\ bus_alerts # <<>>) =>
                (Contains(<<"R", "e", "d", " ", "L", "i", "n", "e">>,
                            subject) /\ ~Contains(<<"B", "u", "s", " ", "1">>, subject))
        /\ (~mbta_raised /\ red_alerts = <<>> /\ bus_alerts = <<>> /\ m2_status = ShuttleSentinel)
                => subject = AllClearSubject

\* a run with a Red Line alert and a Bus 1 alert kept and the shuttle disrupted
C1_Witness ==
    /\ pc = "exit"
    /\ ~mbta_raised /\ red_alerts # <<>> /\ bus_alerts # <<>>
    /\ red_bad /\ bus_bad /\ m2_bad
    /\ subject = RedLineSubject

\* ------------------------------------------------------------ C2
\* C2: when the transit fetch or its parsing fails in check_mbta_split, the
\* subject of the run is not the all-clear subject, whatever the shuttle status.
C2_TransitErrorNeverAllClear ==
    (mbta_raised /\ SubjectChosen) => subject # AllClearSubject

\* ------------------------------------------------------------ C3
\* C3: every failure on the shuttle path (non-200 page, page fetch raising,
\* summarizer raising) gives an explicit error string as the shuttle status, the
\* status is classified as disrupted, and the subject is not the all-clear one.
C3_ShuttleFailureDisrupted ==
    m2_failed =>
        /\ \/ Contains(<<"C", "o", "u", "l", "d", " ", "n", "o", "t", " ", "a", "c", "c", "e",
                         "s", "s">>, m2_status)
           \/ Contains(<<"E", "r", "r", "o", "r">>, m2_status)
        /\ Classified => m2_bad
        /\ SubjectChosen => subject # AllClearSubject

\* a shuttle failure in a run whose two transit routes are normal
C3_Witness ==
    /\ pc = "exit"
    /\ m2_failed
    /\ ~mbta_raised /\ red_alerts = <<>> /\ bus_alerts = <<>>
    /\ subject = ShuttleSubject

\* ------------------------------------------------------------ C4
CredentialMissing == "EMAIL_USER" \notin DOMAIN env \/ "EMAIL_PASSWORD" \notin DOMAIN env

\* a line is printed after the two prints of the report
ErrorLogged == Len(stdout) > 4

\* C4: with EMAIL_USER or EMAIL_PASSWORD missing, send_email makes no connection
\* and no send attempt, an error is logged, and the run ends without an
\* exception leaving it.
C4_MissingCredentialExitsQuietly ==
    (CredentialMissing /\ Ended) =>
        /\ smtp.connects = 0
        /\ smtp.messages = <<>>
        /\ uncaught = <<>>
        /\ ErrorLogged

\* ------------------------------------------------------------ C10
\* C10: the fallback subject is never produced: for every value of the three
\* flags the subject is one of the four forms all-clear, Red Line Issues,
\* Bus 1 Issues, M2 Shuttle Issues.
C10_FallbackUnreachable ==
    /\ SubjectChosen =>
            /\ subject \in {AllClearSubject, RedLineSubject, Bus1Subject, ShuttleSubject}
            /\ subject # FallbackSubject
    /\ \A rb \in BOOLEAN, bb \in BOOLEAN, mb \in BOOLEAN, d \in DATES :
            ~Contains(<<"C", "o", "m", "m", "u", "t", "e", " ", "U", "p", "d", "a", "t", "e">>,
                        SubjectFor(rb, bb, mb, d))

\* the subject chosen with no flag set, and with only the last flag set
C10_Witness ==
    /\ pc = "exit"
    /\ ~red_bad /\ ~bus_bad
    /\ subject \in {AllClearSubject, ShuttleSubject}

\* ------------------------------------------------------------ C5
\* the alert the for loop visits next
Visiting == pc = "mbta_loop" /\ alerts # <<>>
EffectListed(a) == a.effect \in {"DELAY", "SUSPENSION", "DETOUR", "SNOW_ROUTE", "SHUTTLE"}
OnRoute(a, r) == a.informed_entity # <<>> /\ a.informed_entity[1].route_id = r

\* the text of a description, a null description having none
DescriptionText(a) == IF a.description.type = "str" THEN a.description.val ELSE <<>>

\* the lower-cased concatenation of header and description holds a zone keyword
\* or a global-impact keyword
KeywordIn(a) ==
    \E k \in { <<"k", "e", "n", "d", "a", "l", "l">>, <<"m", "i", "t">>, <<"c", "e", "n", "t",
                 "r", "a", "l">>, <<"h", "a", "r", "v", "a", "r", "d">>, <<"a", "l", "l">>,
                 <<"g", "l", "o", "b", "a", "l">> } :
        Contains(k, Lower(a.header \o DescriptionText(a)))

\* C5: a Red Line alert with a relevant effect has its header added to the Red
\* Line status if and only if the lower-cased concatenation of its header and
\* description contains Kendall, MIT, Central, Harvard, "all" or "global": the
\* visit of the alert keeps its header exactly in that case, and the headers
\* kept are in the status check_mbta_split returns.
C5_RedLineZoneFilter ==
    /\ [][ (Visiting /\ EffectListed(Head(alerts)) /\ OnRoute(Head(alerts), "Red")) =>
              /\ KeywordIn(Head(alerts)) =>
                      red_alerts' = Append(red_alerts, <<"U+26A0", "U+FE0F",
                                                         " ">> \o Head(alerts).header)
              /\ ~KeywordIn(Head(alerts)) => red_alerts' = red_alerts ]_vars
    /\ [](MbtaReturned => \A i \in 1..Len(red_alerts) : Contains(red_alerts[i], red_status))

\* ------------------------------------------------------------ C6
\* C6: every Bus 1 alert with a relevant effect in the list the transit API
\* returned has its header in the returned Bus 1 status, whatever the other
\* alerts of the list are.  (At the return the list is the alerts visited, whose
\* Bus 1 headers are in bus_alerts, followed by the alerts not visited.)
C6_Bus1AlwaysIncluded ==
    MbtaReturned =>
        /\ \A i \in 1..Len(bus_alerts) : Contains(bus_alerts[i], bus_status)
        /\ \A i \in 1..Len(alerts) :
                (EffectListed(alerts[i]) /\ OnRoute(alerts[i], "1"))
                    => Contains(alerts[i].header, bus_status)

C8_IrrelevantEffectIgnored ==
    [][ (Visiting /\ ~EffectListed(Head(alerts))) =>
            /\ red_alerts' = red_alerts
            /\ bus_alerts' = bus_alerts
            /\ ~mbta_raised'
            /\ pc' = "mbta_loop"
            /\ alerts' = Tail(alerts) ]_vars

\* the loop is about to visit a Red Line alert with "Harvard" in its header and
\* an effect outside the list, after it kept a header
C8_Witness ==
    /\ Visiting
    /\ ~EffectListed(Head(alerts))
    /\ OnRoute(Head(alerts), "Red")
    /\ Contains(<<"H", "a", "r", "v", "a", "r", "d">>, Head(alerts).header)
    /\ Len(red_alerts) + Len(bus_alerts) = 1

\* ------------------------------------------------------------ C9
\* the order of the statements of a run
RunOrder ==
    { <<"check_mbta", "mbta_loop">>, <<"check_mbta", "check_m2">>, <<"mbta_loop", "check_m2">>,
      <<"check_m2", "m2_summary">>, <<"check_m2", "classify">>, <<"m2_summary", "classify">>,
      <<"classify", "subject">>, <<"subject", "report">>, <<"report", "print">>,
      <<"print", "send_email">>, <<"send_email", "smtp">>, <<"smtp", "exit">> }

CredentialsPresent == ~CredentialMissing

\* C9: with the mail credentials present no exception leaves the run, which
\* ends at its exit; a transit failure, a shuttle failure and an SMTP
\* failure each become a status string or a printed line; the steps run in the
\* order transit fetch, shuttle fetch and summary, classify, build, print, send;
\* exactly one send attempt is made, after the report is printed.
C9_RunCompletesInOrder ==
    /\ [](CredentialsPresent =>
            /\ pc # "crashed" /\ uncaught = <<>>
            /\ (MbtaReturned /\ mbta_raised) => StartsWith(<<"E", "r", "r", "o", "r", " ", "c",
                                                             "h", "e", "c", "k", "i", "n", "g",
                                                             " ", "M", "B", "T", "A", ":",
                                                             " ">>, red_status)
            /\ (pc \notin {"check_mbta", "mbta_loop", "check_m2"} /\ m2_failed) =>
                    \/ Contains(<<"E", "r", "r", "o", "r">>, m2_status)
                    \/ Contains(<<"C", "o", "u", "l", "d", " ", "n", "o", "t", " ", "a", "c",
                                  "c", "e", "s", "s">>, m2_status)
            /\ smtp.connects > 0 =>
                    /\ pc = "exit"
                    /\ smtp.connects = 1
                    /\ Len(stdout) = 5
                    /\ stdout[3] = <<"S", "u", "b", "j", "e", "c", "t", ":", " ">> \o subject
                    /\ stdout[4] = email_body
                    /\ \/ StartsWith(<<"U+2705", " ", "E", "m", "a", "i", "l", " ", "s", "e",
                                       "n", "t", " ", "t", "o", " ">>,
                                       stdout[5]) /\ Len(smtp.messages) = 1
                       \/ StartsWith(<<"U+274C", " ", "E", "m", "a", "i", "l", " ", "f", "a",
                                       "i", "l", "e", "d", ":", " ">>,
                                       stdout[5]) /\ smtp.messages = <<>>
            /\ (pc = "exit") => smtp.connects = 1)
    /\ [][CredentialsPresent => (pc' = pc \/ <<pc, pc'>> \in RunOrder)]_vars

\* a run with credentials in which the transit parsing, the summarizer and the
\* mail relay all failed
C9_Witness ==
    /\ pc = "exit"
    /\ CredentialsPresent
    /\ mbta_raised /\ m2_failed
    /\ StartsWith(<<"U+26A0", "U+FE0F", " ", "E", "r", "r", "o", "r", " ", "a", "s", "k", "i",
                    "n", "g", " ", "A", "I">>, m2_status)
    /\ smtp.messages = <<>>
====
